---- MODULE Spec2Model ----
(***************************************************************************)
(* A model of src/main.py: the command-line "say" utility.  One behaviour  *)
(* is a sequence of runs of main() on the same cache directory.  The file  *)
(* system under CACHE_DIR persists between the runs; everything else is    *)
(* local to a run.  Python strings are modelled as sequences of characters *)
(* so that substring tests, lower-casing and joins are computed.           *)
(***************************************************************************)
EXTENDS Naturals, Sequences, FiniteSets

VARIABLES
    apiVoices,      \* what client.voices.search().voices returns for this account
    cacheDir,       \* CACHE_DIR exists
    audioDir,       \* CACHE_DIR/audio exists
    userMadeDir,    \* CACHE_DIR/audio was made by the user, outside the program
    voicesFile,     \* voices.pickle: [exists, data]
    modelsFile,     \* models.pickle: [exists, data]
    audioFiles,     \* the names of the files under CACHE_DIR/audio
    runs,           \* number of runs of main() started
    pc,             \* position of the current run in main()
    argVoice,       \* args.voice (NoArg when -v is not given)
    argText,        \* args.text, the list of positional words
    voices,         \* main's local `voices`
    model_id,       \* main's local `model_id`
    i,              \* number of iterations of the "All" loop done
    success,        \* main's local `success`
    voice,          \* main's local `voice`, tagged with its Python type
    ret,            \* the value main() returned, or the status argparse exited with
    exc,            \* the exception that left main() uncaught
    sayLog,         \* the say() calls of the current run, in order
    voicesFileSeen, \* voices.pickle existed when this run called get_voices
    voiceApiRun     \* this run called the voice-listing API

vars == <<apiVoices, cacheDir, audioDir, userMadeDir, voicesFile, modelsFile,
          audioFiles, runs, pc, argVoice, argText, voices, model_id, i, success,
          voice, ret, exc, sayLog, voicesFileSeen, voiceApiRun>>

fsVars == <<cacheDir, audioDir, userMadeDir, voicesFile, modelsFile, audioFiles>>
argVars == <<argVoice, argText>>

----------------------------------------------------------------------------
(* Bounds *)

MaxVoices == 2
MaxRuns == 2

----------------------------------------------------------------------------
(* Strings *)

sAny == <<"A", "n", "y">>
sMale == <<"M", "a", "l", "e">>
sFemale == <<"F", "e", "m", "a", "l", "e">>
sAll == <<"A", "l", "l">>
sAlice == <<"A", "l", "i", "c", "e">>
sAl == <<"A", "l">>
sMalek == <<"M", "a", "l", "e", "k">>
sflash == <<"f", "l", "a", "s", "h">>
smale == <<"m", "a", "l", "e">>
sfemale == <<"f", "e", "m", "a", "l", "e">>
sFlashV25 == <<"e", "l", "e", "v", "e", "n", "_", "f", "l", "a", "s", "h", "_",
               "v", "2", "_", "5">>
sFlashV2 == <<"e", "l", "e", "v", "e", "n", "_", "f", "l", "a", "s", "h", "_",
              "v", "2">>
sMultiV2 == <<"e", "l", "e", "v", "e", "n", "_", "m", "u", "l", "t", "i", "_",
              "v", "2">>

\* needle in hay, on Python strings
Contains(needle, hay) ==
    \E k \in 0..(Len(hay) - Len(needle)) :
        \A j \in 1..Len(needle) : hay[k + j] = needle[j]

LowerChar(c) ==
    CASE c = "A" -> "a"
      [] c = "F" -> "f"
      [] c = "M" -> "m"
      [] OTHER -> c

\* str.lower()
Lower(s) == [j \in 1..Len(s) |-> LowerChar(s[j])]

RECURSIVE Join(_)
\* " ".join(words)
Join(words) ==
    IF words = <<>> THEN <<>>
    ELSE IF Len(words) = 1 THEN words[1]
    ELSE words[1] \o <<" ">> \o Join(Tail(words))

----------------------------------------------------------------------------
(* Values *)

NoArg == <<>>
NoLabels == {}
GenderLabel(g) == {<<"gender", g>>}

Voice(n, l) == [name |-> n, labels |-> l]

VoicePool ==
    { Voice(sAlice, GenderLabel(sfemale)),
      Voice(sMalek, GenderLabel(smale)),
      Voice(sMalek, NoLabels),
      Voice(sAl, GenderLabel(smale)) }

RECURSIVE SeqsUpTo(_, _)
SeqsUpTo(S, n) ==
    IF n = 0 THEN {<<>>}
    ELSE LET shorter == SeqsUpTo(S, n - 1)
         IN shorter \cup {Append(s, x) : s \in {t \in shorter : Len(t) = n - 1}, x \in S}

VoiceLists == SeqsUpTo(VoicePool, MaxVoices)

VoiceArgs == {NoArg, sAny, sMale, sFemale, sAll, sAlice, sMalek, sAl}
TextArgs == { << <<"h", "i">> >>, << <<"h">>, <<"i">> >> }
ModelLists == { <<>>, <<sMultiV2>>, <<sMultiV2, sFlashV2>> }

NoFile == [exists |-> FALSE, data |-> <<>>]
File(d) == [exists |-> TRUE, data |-> d]

NoVoice == [type |-> "NoneType", val |-> <<>>]
VoiceObj(v) == [type |-> "Voice", val |-> v]
StrObj(s) == [type |-> "str", val |-> s]

NoRet == {}
Returned(code) == {code}

DEFAULT_VOICE_NAME == sAlice
FALLBACK_MODEL == sFlashV25

----------------------------------------------------------------------------
(* get_voices *)

\* the condition of the load branch: voices_path.is_file() and False
UseVoiceCache(exists) == exists /\ FALSE

\* what an exception of the voice-listing call does to main()
VoiceApiFailure == [pc |-> "raised", exc |-> "ApiError", voices |-> <<>>]

----------------------------------------------------------------------------
(* parse_args *)

SpecialChoices == {sAny, sMale, sFemale, sAll}

\* the `choices` of --voice
Choices(vs) == SpecialChoices \cup {vs[k].name : k \in 1..Len(vs)}

\* text = " ".join(args.text)
Text == Join(argText)

----------------------------------------------------------------------------
(* get_latest_model *)

\* models = client.models.list(), or [] when the call raises
FetchModels(ok, list) == IF ok THEN list ELSE <<>>

IsFlash(m) == Contains(sflash, m)

PickModel(models) ==
    LET flash_models == SelectSeq(models, IsFlash)
    IN IF flash_models # <<>> THEN flash_models[1]
       ELSE IF models # <<>> THEN models[1]
       ELSE FALLBACK_MODEL

----------------------------------------------------------------------------
(* say *)

\* key = f"{voice.name}:{text}"
Key(name, txt) == name \o <<":">> \o txt

\* hashlib.sha256(key.encode()).hexdigest() + ".mp3": taken to be collision free,
\* so a file name stands for the key it was computed from
FileName(key) == key

\* save(audio, str(filepath)) opens the file for writing: it needs the directory
SaveOk(dirExists) == dirExists

\* a mutant of CacheHit: the cache is never consulted
CacheHitNever(f, files) == FALSE

\* filepath.is_file()
CacheHit(f, files) == f \in files

\* a mutant of Unlink: the file is kept
UnlinkNothing(files, f) == files

\* filepath.unlink()
Unlink(files, f) == files \ {f}

\* One call of say(): the journal of what it did, the audio files it leaves and
\* its return value.  apiOk: text_to_speech.convert yields the audio;
\* playOk: open() and play() do not raise.
SayOutcome(name, txt, files, dirExists, apiOk, playOk) ==
    LET f == FileName(Key(name, txt))
        hit == CacheHit(f, files)
        synth == ~hit
        saved == synth /\ apiOk /\ SaveOk(dirExists)
        files1 == IF saved THEN files \cup {f} ELSE files
        generated == hit \/ saved
        playFailed == generated /\ ~playOk
        files2 == IF playFailed THEN Unlink(files1, f) ELSE files1
    IN [ file |-> f,
         hit |-> hit,
         synth |-> synth,
         apiOk |-> synth /\ apiOk,
         played |-> generated,
         playFailed |-> playFailed,
         files |-> files2,
         result |-> generated /\ playOk ]

\* the journal entry of a say() call; fresh: CACHE_DIR holds only what the runs
\* of main() put there
Entry(v, o) ==
    [ voice |-> v, file |-> o.file, hit |-> o.hit, synth |-> o.synth,
      apiOk |-> o.apiOk, played |-> o.played, playFailed |-> o.playFailed,
      fresh |-> ~userMadeDir, result |-> o.result ]

----------------------------------------------------------------------------
(* voice selection *)

GenderMatches(v) ==
    v.labels # {} /\ \E p \in v.labels : p[1] = "gender" /\ p[2] = Lower(argVoice)

\* voice_choices; <<>> stands for None and for the empty list, both falsy
VoiceChoices(vs, arg) ==
    IF arg = sAny
    THEN [k \in 1..Len(vs) |-> StrObj(vs[k].name)]
    ELSE IF arg \in {sMale, sFemale}
    THEN LET sel == SelectSeq(vs, GenderMatches)
         IN [k \in 1..Len(sel) |-> VoiceObj(sel[k])]
    ELSE <<>>

\* voice_name = args.voice or DEFAULT_VOICE_NAME
VoiceName(arg) == IF arg # <<>> THEN arg ELSE DEFAULT_VOICE_NAME

\* the indexes the generator of next(...) yields
NameMatches(vs, voice_name) ==
    {k \in 1..Len(vs) : vs[k].name # <<>> /\ Contains(voice_name, vs[k].name)}

Min(S) == CHOOSE x \in S : \A y \in S : x <= y

\* assert type(voice) is Voice
AssertVoice(v) == v.type = "Voice"

----------------------------------------------------------------------------
(* the runs *)

\* a mutant of NextVoice: the loop stops at the first failure
NextVoiceBreak(k, ok) == IF ok THEN k + 1 ELSE Len(voices)

\* the position of `for voice in voices` after an iteration
NextVoice(k, ok) == k + 1

Init ==
    /\ apiVoices \in VoiceLists
    /\ cacheDir = FALSE
    /\ audioDir = FALSE
    /\ userMadeDir = FALSE
    /\ voicesFile = NoFile
    /\ modelsFile = NoFile
    /\ audioFiles = {}
    /\ runs = 0
    /\ pc = "idle"
    /\ argVoice = NoArg
    /\ argText = <<>>
    /\ voices = <<>>
    /\ model_id = <<>>
    /\ i = 0
    /\ success = FALSE
    /\ voice = NoVoice
    /\ ret = NoRet
    /\ exc = "none"
    /\ sayLog = <<>>
    /\ voicesFileSeen = FALSE
    /\ voiceApiRun = FALSE

\* main, up to the construction of the client
StartRun ==
    /\ pc = "idle"
    /\ runs < MaxRuns
    /\ runs' = runs + 1
    /\ cacheDir' = TRUE
    /\ \E a \in VoiceArgs, t \in TextArgs : argVoice' = a /\ argText' = t
    /\ pc' = "get_voices"
    /\ UNCHANGED <<apiVoices, audioDir, userMadeDir, voicesFile, modelsFile,
                   audioFiles, voices, model_id, i, success, voice, ret, exc,
                   sayLog, voicesFileSeen, voiceApiRun>>

\* voices = get_voices(client, CACHE_DIR)
GetVoices ==
    /\ pc = "get_voices"
    /\ voicesFileSeen' = voicesFile.exists
    /\ IF UseVoiceCache(voicesFile.exists)
       THEN /\ voices' = voicesFile.data
            /\ pc' = "parse_args"
            /\ UNCHANGED <<voicesFile, voiceApiRun, exc>>
       ELSE /\ voiceApiRun' = TRUE
            /\ \E ok \in BOOLEAN :
                 IF ok
                 THEN /\ voices' = apiVoices
                      /\ voicesFile' = File(apiVoices)
                      /\ pc' = "parse_args"
                      /\ exc' = exc
                 ELSE /\ voices' = VoiceApiFailure.voices
                      /\ pc' = VoiceApiFailure.pc
                      /\ exc' = VoiceApiFailure.exc
                      /\ voicesFile' = voicesFile
    /\ UNCHANGED <<apiVoices, cacheDir, audioDir, userMadeDir, modelsFile,
                   audioFiles, runs, argVars, model_id, i, success, voice, ret,
                   sayLog>>

\* args = parse_args([...]): argparse exits with status 2 on a value outside choices
ParseArgs ==
    /\ pc = "parse_args"
    /\ IF argVoice = NoArg \/ argVoice \in Choices(voices)
       THEN pc' = "get_model" /\ ret' = ret
       ELSE pc' = "exited" /\ ret' = Returned(2)
    /\ UNCHANGED <<apiVoices, fsVars, runs, argVars, voices, model_id, i, success,
                   voice, exc, sayLog, voicesFileSeen, voiceApiRun>>

\* model_id = get_latest_model(client, CACHE_DIR)
GetLatestModel ==
    /\ pc = "get_model"
    /\ \E ok \in BOOLEAN, list \in ModelLists :
         LET models == IF modelsFile.exists THEN modelsFile.data
                       ELSE FetchModels(ok, list)
         IN /\ modelsFile' = File(models)
            /\ model_id' = PickModel(models)
    /\ pc' = IF argVoice = sAll THEN "all_loop" ELSE "select"
    /\ success' = FALSE
    /\ UNCHANGED <<apiVoices, cacheDir, audioDir, userMadeDir, voicesFile,
                   audioFiles, runs, argVars, voices, i, voice, ret, exc, sayLog,
                   voicesFileSeen, voiceApiRun>>

\* one iteration of `for voice in voices`
AllIter ==
    /\ pc = "all_loop"
    /\ i < Len(voices)
    /\ \E apiOk \in BOOLEAN, playOk \in BOOLEAN :
         LET v == voices[i + 1]
             o == SayOutcome(v.name, Text, audioFiles, audioDir, apiOk, playOk)
         IN /\ audioFiles' = o.files
            /\ success' = o.result
            /\ sayLog' = Append(sayLog, Entry(v, o))
            /\ i' = NextVoice(i, o.result)
    /\ UNCHANGED <<apiVoices, cacheDir, audioDir, userMadeDir, voicesFile,
                   modelsFile, runs, pc, argVars, voices, model_id, voice, ret, exc,
                   voicesFileSeen, voiceApiRun>>

\* return 0 if success else 1, after the loop
AllReturn ==
    /\ pc = "all_loop"
    /\ i = Len(voices)
    /\ ret' = Returned(IF success THEN 0 ELSE 1)
    /\ pc' = "returned"
    /\ UNCHANGED <<apiVoices, fsVars, runs, argVars, voices, model_id, i, success,
                   voice, exc, sayLog, voicesFileSeen, voiceApiRun>>

\* from `voice_choices = None` to the assertion
SelectVoice ==
    /\ pc = "select"
    /\ LET voice_choices == VoiceChoices(voices, argVoice)
           matches == NameMatches(voices, VoiceName(argVoice))
       IN IF voice_choices # <<>>
          THEN \E k \in 1..Len(voice_choices) :
                 /\ voice' = voice_choices[k]
                 /\ IF AssertVoice(voice_choices[k])
                    THEN pc' = "say" /\ exc' = exc
                    ELSE pc' = "raised" /\ exc' = "AssertionError"
          ELSE IF matches = {}
          THEN voice' = voice /\ pc' = "raised" /\ exc' = "StopIteration"
          ELSE /\ voice' = VoiceObj(voices[Min(matches)])
               /\ pc' = "say"
               /\ exc' = exc
    /\ UNCHANGED <<apiVoices, fsVars, runs, argVars, voices, model_id, i, success,
                   ret, sayLog, voicesFileSeen, voiceApiRun>>

\* success = say(...); return 0 if success else 1
SaySingle ==
    /\ pc = "say"
    /\ \E apiOk \in BOOLEAN, playOk \in BOOLEAN :
         LET v == voice.val
             o == SayOutcome(v.name, Text, audioFiles, audioDir, apiOk, playOk)
         IN /\ audioFiles' = o.files
            /\ success' = o.result
            /\ sayLog' = Append(sayLog, Entry(v, o))
            /\ ret' = Returned(IF o.result THEN 0 ELSE 1)
    /\ pc' = "returned"
    /\ UNCHANGED <<apiVoices, cacheDir, audioDir, userMadeDir, voicesFile,
                   modelsFile, runs, argVars, voices, model_id, i, voice, exc,
                   voicesFileSeen, voiceApiRun>>

\* exit(main()): the process ends and its locals are gone
Exit ==
    /\ pc \in {"returned", "raised", "exited"}
    /\ pc' = "idle"
    /\ argVoice' = NoArg
    /\ argText' = <<>>
    /\ voices' = <<>>
    /\ model_id' = <<>>
    /\ i' = 0
    /\ success' = FALSE
    /\ voice' = NoVoice
    /\ ret' = NoRet
    /\ exc' = "none"
    /\ sayLog' = <<>>
    /\ voicesFileSeen' = FALSE
    /\ voiceApiRun' = FALSE
    /\ UNCHANGED <<apiVoices, fsVars, runs>>

\* outside the runs the user makes CACHE_DIR/audio by hand (mkdir -p)
UserMkAudioDir ==
    /\ pc = "idle"
    /\ ~audioDir
    /\ cacheDir' = TRUE
    /\ audioDir' = TRUE
    /\ userMadeDir' = TRUE
    /\ UNCHANGED <<apiVoices, voicesFile, modelsFile, audioFiles, runs,
                   pc, argVars, voices, model_id, i, success, voice, ret, exc,
                   sayLog, voicesFileSeen, voiceApiRun>>

Next ==
    \/ StartRun
    \/ GetVoices
    \/ ParseArgs
    \/ GetLatestModel
    \/ AllIter
    \/ AllReturn
    \/ SelectVoice
    \/ SaySingle
    \/ Exit
    \/ UserMkAudioDir

Spec == Init /\ [][Next]_vars

----------------------------------------------------------------------------
(* Properties *)

Last == sayLog[Len(sayLog)]
Terminated == pc \in {"returned", "raised", "exited"}
Said == [k \in 1..Len(sayLog) |-> sayLog[k].voice]
Results == {sayLog[k].result : k \in 1..Len(sayLog)}
GotVoices == pc \notin {"idle", "get_voices"} /\ exc # "ApiError"

\* C1: a say() call that finds the audio file of its (voice, text) in the cache
\* does not invoke the synthesis API, and a say() call that invokes it found
\* no such file.
C1_CacheHitSkipsSynthesis ==
    [][ Len(sayLog') = Len(sayLog) + 1 =>
          LET e == sayLog'[Len(sayLog')]
              there == FileName(Key(e.voice.name, Text)) \in audioFiles
          IN (there => ~e.synth) /\ (e.synth => ~there) ]_vars

C1_Witness ==
    sayLog # <<>> /\ Last.hit /\ ~Last.synth /\ Last.result

\* C2: when playback fails in say(), from a cache hit or from fresh synthesis,
\* say() returns False and the audio file of that (voice, text) is gone when it
\* has returned.
C2_PlaybackFailureRemovesFile ==
    (sayLog # <<>> /\ Last.playFailed) =>
        /\ ~success
        /\ ~Last.result
        /\ FileName(Key(Last.voice.name, Text)) \notin audioFiles

C2_Witness ==
    /\ Len(sayLog) = 2
    /\ sayLog[1].playFailed /\ sayLog[1].hit
    /\ sayLog[2].playFailed /\ sayLog[2].synth
    /\ sayLog[1].file = sayLog[2].file

\* C3: with selector "Male" or "Female", every voice passed to say() has the
\* gender label equal to the lower-cased selector.
C3_OnlyMatchingGender ==
    argVoice \in {sMale, sFemale} =>
        \A k \in 1..Len(sayLog) : <<"gender", Lower(argVoice)>> \in sayLog[k].voice.labels

\* C4: with selector "All", say() is called once for every voice of the list, in
\* list order, whatever the earlier calls returned.
C4_AllSaysEveryVoice ==
    argVoice = sAll =>
        /\ pc = "all_loop" => Said = SubSeq(voices, 1, i)
        /\ pc = "returned" => Said = voices

C4_Witness ==
    /\ argVoice = sAll
    /\ pc = "returned"
    /\ Len(voices) >= 2
    /\ ~sayLog[1].result
    /\ sayLog[Len(sayLog)].result

\* C5: with an empty voice list and selector none, "Any", "Male", "Female" or
\* "All", and also when no voice name contains the requested or default name,
\* main() ends by returning 1, with no uncaught exception and no say() call.
C5_NoVoiceFailsGracefully ==
    ( /\ Terminated
      /\ GotVoices
      /\ \/ voices = <<>> /\ argVoice \in {NoArg} \cup SpecialChoices
         \/ /\ argVoice \notin SpecialChoices
            /\ pc # "exited"
            /\ NameMatches(voices, VoiceName(argVoice)) = {} )
    => (pc = "returned" /\ ret = Returned(1) /\ sayLog = <<>>)

\* C6: main() returns 0 when it called say() at least once and every call
\* returned True, and returns 1 otherwise, in "All" mode too.
C6_ExitCodeReflectsEverySay ==
    pc = "returned" =>
        ret = Returned(IF sayLog # <<>> /\ Results = {TRUE} THEN 0 ELSE 1)

\* C7: a failure of the voice-listing, model-listing or synthesis call never
\* leaves main() with an uncaught exception.
C7_ApiFailureNeverAborts ==
    ~(pc = "raised" /\ exc = "ApiError")

\* C8: get_voices calls the voice-listing API only when voices.pickle does not
\* exist: a run that finds the file does not call the API, so the runs on a
\* cache directory call it no more once the file is written.
C8_VoicesFetchedOnce ==
    voicesFileSeen => ~voiceApiRun

\* C9: with selector "Any" and a non-empty voice list, the selected voice is a
\* Voice of the list, the assertion holds and say() is called once with it.
C9_AnyPicksAVoice ==
    (argVoice = sAny /\ voices # <<>> /\ pc \in {"say", "returned", "raised"}) =>
        /\ pc # "raised"
        /\ voice.type = "Voice"
        /\ \E k \in 1..Len(voices) : voice.val = voices[k]
        /\ pc = "returned" => Said = <<voice.val>>

\* C10: in a cache directory that holds only what main() made, a say() call on a
\* cache miss whose synthesis call succeeds and whose playback does not fail
\* returns True and leaves the audio file in the cache.
C10_FirstUseCachesAudio ==
    (sayLog # <<>> /\ Last.fresh /\ ~Last.hit /\ Last.apiOk /\ ~Last.playFailed) =>
        /\ Last.result
        /\ FileName(Key(Last.voice.name, Text)) \in audioFiles

====
